---- MODULE Spec2Model ----
(***************************************************************************)
(* boost::array<T,N> (include/boost/array.hpp): a fixed-size container     *)
(* wrapping the member `T elems[N]`, with the partial specialization       *)
(* array<T,0> that holds no storage.                                       *)
(*                                                                         *)
(* The element type T is modelled as int restricted to Values.  A program  *)
(* owns a few arrays of the same type array<T,N>, named by strings; `arr`  *)
(* maps each name to the contents of its elems member, indexed 0..N-1 as   *)
(* in the source.  References, pointers and iterators into an array are    *)
(* all `elems + i`: a pair of the array's name and the position.           *)
(***************************************************************************)
EXTENDS Integers, FiniteSets, Sequences, TLC

VARIABLES
    N,        \* the template parameter N of array<T,N>, fixed per program
    arr,      \* arr[x][i]: the value of x.elems[i]
    it,       \* an iterator taken earlier by the program (or NoIter)
    last,     \* the latest operation: its arguments, its result, the state before
    halted    \* TRUE once BOOST_ASSERT has aborted the program, or once a
              \* BOOST_STATIC_ASSERT has rejected it: nothing runs afterwards

vars == <<N, arr, it, last, halted>>

\* ------------------------------------------------------------------ bounds
MaxN == 2
MaxVal == 1

Values == 0..MaxVal
Names == {"a", "b"}
CmpNames == {"a", "b", "c"}
\* T2 of the converting assignment: bool, converted to T = int
SrcValues == BOOLEAN
SrcStorage(n) == [0..(n - 1) -> SrcValues]

\* test/array6.cpp probes at(size()), at(size() + 1) and at(size() + 100)
FarOffset == 100
IndexInputs == (0..(N + 1)) \cup {N + FarOffset}
\* the indices a program writes through: every valid one, and one past the end
WriteIndexInputs == 0..N
\* the template arguments Idx a program instantiates get<Idx> with
StaticIndexInputs == 0..N

\* T elems[N]: every content an array of length n can have
Storage(n) == [0..(n - 1) -> Values]

\* ------------------------------------------------- references and iterators
\* T* / T& / iterator: elems + i of the array named x
Ref(x, i) == [arr |-> x, pos |-> i]
NullRef == [arr |-> "-", pos |-> -1]
NoIter == NullRef

\* reading and writing through a reference
load(m, r) == m[r.arr][r.pos]
store_Spills(m, r, v) ==
    [m EXCEPT ![r.arr] = [k \in DOMAIN m[r.arr] |->
                             IF k = r.pos \/ k = r.pos + 1 THEN v ELSE m[r.arr][k]]]
store_Shared(m, r, v) == [z \in DOMAIN m |-> [m[z] EXCEPT ![r.pos] = v]]
store(m, r, v) == [m EXCEPT ![r.arr][r.pos] = v]

\* what a call gives back: a reference, or the std::out_of_range it threw, or
\* (operator[] past the end) a failed BOOST_ASSERT / an access outside elems
Returned(r) == [status |-> "ok", ref |-> r]
OutOfRange == [status |-> "out_of_range", ref |-> NullRef]
Violated(r) == [status |-> "precondition_violated", ref |-> r]
\* BOOST_STATIC_ASSERT_MSG failed: the program does not build
StaticAssertFailed == [status |-> "static_assert_failed", ref |-> NullRef]

\* ------------------------------------------------------------ size queries
size == IF N = 0 THEN 0 ELSE N
max_size == IF N = 0 THEN 0 ELSE N
empty_NoSpecialization == FALSE
empty == IF N = 0 THEN TRUE ELSE FALSE

\* ------------------------------------------------------------- iterators
begin(x) == Ref(x, 0)
end_BeforeLast(x) == IF N = 0 THEN begin(x) ELSE Ref(x, N - 1)
end(x) == IF N = 0 THEN begin(x) ELSE Ref(x, 0 + N)
cbegin(x) == IF N = 0 THEN Ref(x, 0) ELSE Ref(x, 0)
cend(x) == IF N = 0 THEN cbegin(x) ELSE Ref(x, 0 + N)

\* random access on T*: p + n and p - q
iter_plus(p, n) == Ref(p.arr, p.pos + n)
iter_diff(p, q) == p.pos - q.pos

\* the storage as a pointer: elems (which decays to &elems[0]), and 0 for
\* array<T,0>, which has no elems
data_Last(x) == IF N = 0 THEN NullRef ELSE Ref(x, N - 1)
data(x) == IF N = 0 THEN NullRef ELSE Ref(x, 0)
c_array(x) == IF N = 0 THEN NullRef ELSE Ref(x, 0)
get_c_array(x) == Ref(x, 0)
StoragePointers(x) ==
    [data |-> data(x), c_array |-> c_array(x), get_c_array |-> get_c_array(x)]

\* std::reverse_iterator over T*: it holds a base pointer, *r is *(base - 1),
\* r + k holds base - k, and two of them are equal when their bases are
reverse_iterator(p) == [base |-> p]
rev_plus(r, k) == reverse_iterator(iter_plus(r.base, 0 - k))
rev_target(r) == iter_plus(r.base, 0 - 1)
rev_deref(m, r) == load(m, rev_target(r))

rbegin_FromBegin(x) == reverse_iterator(begin(x))
rbegin(x) == reverse_iterator(end(x))
crbegin(x) == reverse_iterator(end(x))
rend(x) == reverse_iterator(begin(x))
crend(x) == reverse_iterator(begin(x))

\* for (; first != last; ++first) over reverse iterators: the positions the
\* loop body dereferences, in order
RECURSIVE rrange(_, _)
rrange(first, last_) ==
    IF first = last_ THEN <<>>
    ELSE <<rev_target(first)>> \o rrange(rev_plus(first, 1), last_)

\* for (; first != last; ++first): the iterators the loop body sees, in order
RECURSIVE range(_, _)
range(first, last_) ==
    IF first = last_ THEN <<>>
    ELSE <<first>> \o range(iter_plus(first, 1), last_)

\* ---------------------------------------------------------- element access
\* rangecheck(i): "ok" when it returns true, else the exception it throws
rangecheck(i) == IF i >= size THEN "out_of_range" ELSE "ok"

\* array<T,0>::failed_rangecheck: always throws
failed_rangecheck == OutOfRange

at_Clamps(x, i) ==
    IF N = 0 THEN failed_rangecheck
    ELSE Returned(Ref(x, IF i >= N THEN N - 1 ELSE i))
at(x, i) ==
    IF N = 0 THEN failed_rangecheck
    ELSE IF rangecheck(i) = "out_of_range" THEN OutOfRange
    ELSE Returned(Ref(x, i))

op_subscript_Shifted(x, i) ==
    IF N = 0 THEN failed_rangecheck
    ELSE IF i < N THEN Returned(Ref(x, (i + 1) % N))
    ELSE Violated(Ref(x, i))
op_subscript(x, i) ==
    IF N = 0 THEN failed_rangecheck
    ELSE IF i < N THEN Returned(Ref(x, i))
    ELSE Violated(Ref(x, i))

\* front(), back(): elems[0], elems[N-1]; array<T,0> throws instead
front_NoSpecialization(x) == Returned(Ref(x, 0))
front(x) == IF N = 0 THEN failed_rangecheck ELSE Returned(Ref(x, 0))

back_First(x) == IF N = 0 THEN failed_rangecheck ELSE Returned(Ref(x, 0))
back(x) == IF N = 0 THEN failed_rangecheck ELSE Returned(Ref(x, N - 1))

\* boost::get<Idx>(x) and std::get<Idx>(x): static assert Idx < N, then x[Idx]
get_NoStaticAssert(x, Idx) == op_subscript(x, Idx)
get_OffByOne(x, Idx) ==
    IF Idx < N THEN op_subscript(x, (Idx + 1) % N) ELSE StaticAssertFailed
get(x, Idx) ==
    IF Idx < N THEN op_subscript(x, Idx) ELSE StaticAssertFailed

\* ------------------------------------------------------------ fill, assign
RECURSIVE fill_n(_, _, _, _)
fill_n(m, first, count, value) ==
    IF count > 0
    THEN fill_n(store(m, first, value), Ref(first.arr, first.pos + 1), count - 1, value)
    ELSE m

fill_SkipsLast(m, x, value) ==
    IF N = 0 THEN m ELSE fill_n(m, begin(x), size - 1, value)
fill(m, x, value) ==
    IF N = 0 THEN m ELSE fill_n(m, begin(x), size, value)

assign(m, x, value) == fill(m, x, value)

\* --------------------------------------------------------------------- swap
\* boost::swap(l, r) on two elements: T tmp = l; l = r; r = tmp
boost_swap(m, l, r) ==
    LET tmp == load(m, l)
        m1 == store(m, l, load(m, r))
    IN  store(m1, r, tmp)

RECURSIVE swap_loop(_, _, _, _)
swap_loop(m, x, y, i) ==
    IF i < N
    THEN swap_loop(boost_swap(m, Ref(x, i), Ref(y, i)), x, y, i + 1)
    ELSE m

swap_CopiesOneWay(m, x, y) ==
    IF N = 0 THEN m ELSE [m EXCEPT ![x] = m[y]]
RECURSIVE swap_loop_StopsEarly(_, _, _, _)
swap_loop_StopsEarly(m, x, y, i) ==
    IF i < N - 1
    THEN swap_loop_StopsEarly(boost_swap(m, Ref(x, i), Ref(y, i)), x, y, i + 1)
    ELSE m
swap_StopsEarly(m, x, y) ==
    IF N = 0 THEN m ELSE swap_loop_StopsEarly(m, x, y, 0)
swap(m, x, y) ==
    IF N = 0 THEN m ELSE swap_loop(m, x, y, 0)

\* the free function boost::swap(array&, array&): x.swap(y)
swap_free(m, x, y) == swap(m, x, y)

\* the implicitly defined copy assignment x = y: elems copied memberwise
copy_assign(m, x, y) == [m EXCEPT ![x] = m[y]]

\* ------------------------------------------------------ converting assignment
\* the implicit conversion T2 -> T applied by *d_first = *first (bool to int)
Convert(s) == IF s THEN 1 ELSE 0

\* std::copy(first, last, d_first)
RECURSIVE copy(_, _, _, _)
copy(m, first, last_, d_first) ==
    IF first = last_ THEN m
    ELSE copy(store(m, d_first, Convert(load(m, first))),
              Ref(first.arr, first.pos + 1), last_,
              Ref(d_first.arr, d_first.pos + 1))

\* *this: the array object x, at the address of its first element
self(x) == Ref(x, 0)

\* template <typename T2> array& operator= (const array<T2,N>& rhs)
op_assign_Nothing(m, x, rhs) == m
op_assign(m, x, rhs) ==
    IF N = 0 THEN m ELSE copy(m, begin(rhs), end(rhs), begin(x))

\* -------------------------------------------------------------- comparisons
\* std::equal(first1, last1, first2)
RECURSIVE equal(_, _, _, _)
equal(m, first1, last1, first2) ==
    IF first1 = last1 THEN TRUE
    ELSE IF ~(load(m, first1) = load(m, first2)) THEN FALSE
    ELSE equal(m, Ref(first1.arr, first1.pos + 1), last1,
                  Ref(first2.arr, first2.pos + 1))

\* std::lexicographical_compare(first1, last1, first2, last2)
RECURSIVE lexicographical_compare(_, _, _, _, _)
lexicographical_compare(m, first1, last1, first2, last2) ==
    IF first1 = last1 \/ first2 = last2
    THEN first1 = last1 /\ first2 # last2
    ELSE IF load(m, first1) < load(m, first2) THEN TRUE
    ELSE IF load(m, first2) < load(m, first1) THEN FALSE
    ELSE lexicographical_compare(m, Ref(first1.arr, first1.pos + 1), last1,
                                    Ref(first2.arr, first2.pos + 1), last2)

op_eq_FirstOnly(m, x, y) ==
    N = 0 \/ load(m, begin(x)) = load(m, begin(y))
op_eq(m, x, y) == equal(m, begin(x), end(x), begin(y))

op_lt_FirstDecides(m, x, y) ==
    N > 0 /\ load(m, begin(x)) < load(m, begin(y))
op_lt_OrEqual(m, x, y) ==
    ~lexicographical_compare(m, begin(y), end(y), begin(x), end(x))
op_lt(m, x, y) == lexicographical_compare(m, begin(x), end(x), begin(y), end(y))

op_ne(m, x, y) == ~op_eq(m, x, y)

op_gt_Same(m, x, y) == op_lt(m, x, y)
op_gt(m, x, y) == op_lt(m, y, x)

op_le_Strict(m, x, y) == op_lt(m, x, y)
op_le(m, x, y) == ~op_lt(m, y, x)

op_ge(m, x, y) == ~op_lt(m, x, y)

\* x <=> y on two arrays.  The comparison operators this header declares for
\* array<T,N> are ==, <, !=, >, <=, >= and no other, and the class declares no
\* comparison member; a three-way comparison is never rewritten from == and <,
\* so overload resolution finds no viable operator<=> and the expression is
\* ill-formed.
NoViableOperator == [status |-> "no_viable_operator", ref |-> NullRef]
op_spaceship(m, x, y) == NoViableOperator

\* <=> on int, the element type, with less, equal and greater as -1, 0 and 1
three_way(u, v) == IF u < v THEN 0 - 1 ELSE IF v < u THEN 1 ELSE 0
eq == three_way(0, 0)
lt == three_way(0, 1)
gt == three_way(1, 0)

\* ------------------------------------------------------------------ hashing
\* boost::hash_range is only declared here (its body is Boost.ContainerHash's):
\* starting from seed 0 it combines the hash of each element of [first, last)
\* into the seed, in order.  The combining step stands for hash_combine with
\* boost::hash<int>; within the bounds the seed stays far below 2^64.
hash_combine(seed, v) == seed * 31 + v + 1

RECURSIVE hash_range_from(_, _, _, _)
hash_range_from(m, seed, first, last_) ==
    IF first = last_ THEN seed
    ELSE hash_range_from(m, hash_combine(seed, load(m, first)),
                         Ref(first.arr, first.pos + 1), last_)

hash_range(m, first, last_) == hash_range_from(m, 0, first, last_)

hash_value_OfPointer(m, x) == hash_combine(0, IF x = "a" THEN 0 ELSE 1)
hash_value(m, x) == hash_range(m, begin(x), end(x))

\* ------------------------------------------------------------------ history
\* pre, pre_it: the arrays and the iterator before the operation.  run = 2 when
\* the operation is a swap of the two arrays the operation before it swapped,
\* and pre2 is then the state before that earlier swap.
SwapAgain(op, x, y) ==
    /\ op \in {"swap", "swap_free"}
    /\ last.op \in {"swap", "swap_free"}
    /\ {x, y} = {last.x, last.y}

\* copy_x, copy_y: when the operation before this one was the copy assignment
\* copy_x = copy_y of two distinct arrays, their names
JustCopied == last.op = "copy_assign" /\ last.x # last.y

Op(op, x, y, i, v, status, ref, val, flag) ==
    [op |-> op, x |-> x, y |-> y, i |-> i, v |-> v,
     status |-> status, ref |-> ref, val |-> val, flag |-> flag,
     pre |-> arr, pre_it |-> it,
     run |-> IF SwapAgain(op, x, y) THEN 2 ELSE 1,
     pre2 |-> IF SwapAgain(op, x, y) THEN last.pre ELSE arr,
     copy_x |-> IF JustCopied THEN last.x ELSE "-",
     copy_y |-> IF JustCopied THEN last.y ELSE "-"]

NoOp == [op |-> "init", x |-> "-", y |-> "-", i |-> -1, v |-> -1,
         status |-> "ok", ref |-> NullRef, val |-> -1, flag |-> FALSE,
         pre |-> arr, pre_it |-> NoIter, run |-> 0, pre2 |-> arr,
         copy_x |-> "-", copy_y |-> "-"]

\* --------------------------------------------------------------------- Init
\* aggregate initialization: the caller supplies any element values
Init ==
    /\ N \in 0..MaxN
    /\ arr \in [Names -> Storage(N)]
    /\ it = NoIter
    /\ halted = FALSE
    /\ last = NoOp

InitCmp ==
    /\ N \in 0..MaxN
    /\ arr \in [CmpNames -> Storage(N)]
    /\ it = NoIter
    /\ halted = FALSE
    /\ last = NoOp

\* array_constexpr.cpp: constexpr_test_function(in) starts with res = in.  The
\* test passes cx14 = {0,...,9}; here in is any of the arrays i -> (k*i + s) % 10,
\* whose elements are valid indices as the function needs (cx14 is k = 1, s = 0)
CxN == 10
cx14 == [i \in 0..(CxN - 1) |-> i]
ethalon == [i \in 0..(CxN - 1) |-> <<9, 1, 8, 4, 5, 5, 6, 7, 8, 9>>[i + 1]]
CxInputs == {[i \in 0..(CxN - 1) |-> (k * i + s) % CxN] : k \in 0..(CxN - 1), s \in 0..(CxN - 1)}
CxValues == {0, CxN - 1}

InitCx ==
    /\ N = CxN
    /\ \E f \in CxInputs : arr = [in |-> f, res |-> f]
    /\ it = NoIter
    /\ halted = FALSE
    /\ last = NoOp

\* an array<int,N> a and an array<bool,N> s
InitConv ==
    /\ N \in 0..MaxN
    /\ \E ea \in Storage(N), es \in SrcStorage(N) : arr = [a |-> ea, s |-> es]
    /\ it = NoIter
    /\ halted = FALSE
    /\ last = NoOp

\* ------------------------------------------------------------------ actions
\* a.fill(v)
Fill(x, v) ==
    /\ ~halted
    /\ arr' = fill(arr, x, v)
    /\ last' = Op("fill", x, "-", -1, v, "ok", NullRef, -1, FALSE)
    /\ UNCHANGED <<N, it, halted>>

\* a.assign(v)
Assign(x, v) ==
    /\ ~halted
    /\ arr' = assign(arr, x, v)
    /\ last' = Op("assign", x, "-", -1, v, "ok", NullRef, -1, FALSE)
    /\ UNCHANGED <<N, it, halted>>

\* x.swap(y)
Swap(x, y) ==
    /\ ~halted
    /\ arr' = swap(arr, x, y)
    /\ last' = Op("swap", x, y, -1, -1, "ok", NullRef, -1, FALSE)
    /\ UNCHANGED <<N, it, halted>>

\* boost::swap(x, y)
SwapFree(x, y) ==
    /\ ~halted
    /\ arr' = swap_free(arr, x, y)
    /\ last' = Op("swap_free", x, y, -1, -1, "ok", NullRef, -1, FALSE)
    /\ UNCHANGED <<N, it, halted>>

\* x = y between two array<T,N>
CopyAssign(x, y) ==
    /\ ~halted
    /\ arr' = copy_assign(arr, x, y)
    /\ last' = Op("copy_assign", x, y, -1, -1, "ok", NullRef, -1, FALSE)
    /\ UNCHANGED <<N, it, halted>>

\* T v = x.at(i)
AtRead(x, i) ==
    /\ ~halted
    /\ LET r == at(x, i) IN
       last' = IF r.status = "ok"
               THEN Op("at_read", x, "-", i, -1, "ok", r.ref, load(arr, r.ref), FALSE)
               ELSE Op("at_read", x, "-", i, -1, r.status, NullRef, -1, FALSE)
    /\ UNCHANGED <<N, arr, it, halted>>

\* x.at(i) = v
AtWrite_StoresFirst(x, i, v) ==
    /\ ~halted
    /\ LET r == at(x, i) IN
       IF r.status = "ok"
       THEN /\ arr' = store(arr, r.ref, v)
            /\ last' = Op("at_write", x, "-", i, v, "ok", r.ref, -1, FALSE)
       ELSE /\ arr' = IF N = 0 THEN arr ELSE store(arr, Ref(x, N - 1), v)
            /\ last' = Op("at_write", x, "-", i, v, r.status, NullRef, -1, FALSE)
    /\ UNCHANGED <<N, it, halted>>

AtWrite(x, i, v) ==
    /\ ~halted
    /\ LET r == at(x, i) IN
       IF r.status = "ok"
       THEN /\ arr' = store(arr, r.ref, v)
            /\ last' = Op("at_write", x, "-", i, v, "ok", r.ref, -1, FALSE)
       ELSE /\ arr' = arr
            /\ last' = Op("at_write", x, "-", i, v, r.status, NullRef, -1, FALSE)
    /\ UNCHANGED <<N, it, halted>>

\* T v = x[i].  Past the end BOOST_ASSERT aborts the program, or (NDEBUG) the
\* read is outside elems and yields whatever is there.
SubscriptRead(x, i) ==
    /\ ~halted
    /\ LET r == op_subscript(x, i) IN
       \/ /\ r.status = "ok"
          /\ last' = Op("subscript_read", x, "-", i, -1, "ok", r.ref, load(arr, r.ref), FALSE)
          /\ UNCHANGED halted
       \/ /\ r.status = "out_of_range"
          /\ last' = Op("subscript_read", x, "-", i, -1, r.status, NullRef, -1, FALSE)
          /\ UNCHANGED halted
       \/ /\ r.status = "precondition_violated"
          /\ \/ /\ halted' = TRUE
                /\ last' = Op("subscript_read", x, "-", i, -1, "assert_failed", NullRef, -1, FALSE)
             \/ /\ UNCHANGED halted
                /\ \E w \in Values :
                       last' = Op("subscript_read", x, "-", i, -1, "undefined", r.ref, w, FALSE)
    /\ UNCHANGED <<N, arr, it>>

\* x[i] = v.  Past the end BOOST_ASSERT aborts the program, or (NDEBUG) the
\* write lands outside elems: in another array's element, or in memory the
\* model does not hold.
SubscriptWrite(x, i, v) ==
    /\ ~halted
    /\ LET r == op_subscript(x, i) IN
       \/ /\ r.status = "ok"
          /\ arr' = store(arr, r.ref, v)
          /\ last' = Op("subscript_write", x, "-", i, v, "ok", r.ref, -1, FALSE)
          /\ UNCHANGED halted
       \/ /\ r.status = "out_of_range"
          /\ arr' = arr
          /\ last' = Op("subscript_write", x, "-", i, v, r.status, NullRef, -1, FALSE)
          /\ UNCHANGED halted
       \/ /\ r.status = "precondition_violated"
          /\ \/ /\ halted' = TRUE
                /\ arr' = arr
                /\ last' = Op("subscript_write", x, "-", i, v, "assert_failed", NullRef, -1, FALSE)
             \/ /\ UNCHANGED halted
                /\ \/ arr' = arr
                   \/ \E z \in (DOMAIN arr) \ {x} : \E k \in 0..(N - 1) :
                          arr' = store(arr, Ref(z, k), v)
                /\ last' = Op("subscript_write", x, "-", i, v, "undefined", r.ref, -1, FALSE)
    /\ UNCHANGED <<N, it>>

\* T v = <accessor>, for an accessor that returns a reference or throws
RefRead(op, x, i, r) ==
    /\ ~halted
    /\ last' = IF r.status = "ok"
               THEN Op(op, x, "-", i, -1, "ok", r.ref, load(arr, r.ref), FALSE)
               ELSE Op(op, x, "-", i, -1, r.status, NullRef, -1, FALSE)
    /\ UNCHANGED <<N, arr, it, halted>>

\* <accessor> = v
RefWrite(op, x, i, v, r) ==
    /\ ~halted
    /\ IF r.status = "ok"
       THEN /\ arr' = store(arr, r.ref, v)
            /\ last' = Op(op, x, "-", i, v, "ok", r.ref, -1, FALSE)
       ELSE /\ arr' = arr
            /\ last' = Op(op, x, "-", i, v, r.status, NullRef, -1, FALSE)
    /\ UNCHANGED <<N, it, halted>>

\* T v = x.front(); x.front() = v; T v = x.back(); x.back() = v
FrontRead(x) == RefRead("front_read", x, -1, front(x))
FrontWrite(x, v) == RefWrite("front_write", x, -1, v, front(x))
BackRead(x) == RefRead("back_read", x, -1, back(x))
BackWrite(x, v) == RefWrite("back_write", x, -1, v, back(x))

\* a program that instantiates get<Idx> with Idx >= N is rejected by the
\* compiler: it has no run, which the model shows as a step that ends it
Rejected(op, x, Idx, v) ==
    /\ ~halted
    /\ halted' = TRUE
    /\ last' = Op(op, x, "-", Idx, v, "static_assert_failed", NullRef, -1, FALSE)
    /\ UNCHANGED <<N, arr, it>>

\* T v = get<Idx>(x); get<Idx>(x) = v
GetRead(x, Idx) ==
    IF get(x, Idx).status = "static_assert_failed"
    THEN Rejected("get_read", x, Idx, -1)
    ELSE RefRead("get_read", x, Idx, get(x, Idx))

GetWrite(x, Idx, v) ==
    IF get(x, Idx).status = "static_assert_failed"
    THEN Rejected("get_write", x, Idx, v)
    ELSE RefWrite("get_write", x, Idx, v, get(x, Idx))

\* x = rhs, rhs an array<T2,N>
OpAssign(x, rhs) ==
    /\ ~halted
    /\ arr' = op_assign(arr, x, rhs)
    /\ last' = Op("op_assign", x, rhs, -1, -1, "ok", self(x), -1, FALSE)
    /\ UNCHANGED <<N, it, halted>>

\* x.size(), x.max_size(), x.empty()
Size(x) ==
    /\ ~halted
    /\ last' = Op("size", x, "-", -1, -1, "ok", NullRef, size, FALSE)
    /\ UNCHANGED <<N, arr, it, halted>>

MaxSize(x) ==
    /\ ~halted
    /\ last' = Op("max_size", x, "-", -1, -1, "ok", NullRef, max_size, FALSE)
    /\ UNCHANGED <<N, arr, it, halted>>

Empty(x) ==
    /\ ~halted
    /\ last' = Op("empty", x, "-", -1, -1, "ok", NullRef, -1, empty)
    /\ UNCHANGED <<N, arr, it, halted>>

\* it = x.begin() + i, anywhere in [begin(), end()]
TakeIter(x, i) ==
    /\ ~halted
    /\ begin(x).pos + i <= end(x).pos
    /\ it' = Ref(x, begin(x).pos + i)
    /\ last' = Op("begin_plus", x, "-", i, -1, "ok", it', -1, FALSE)
    /\ UNCHANGED <<N, arr, halted>>

\* it = x.begin()
Begin(x) ==
    /\ ~halted
    /\ it' = begin(x)
    /\ last' = Op("begin", x, "-", -1, -1, "ok", it', -1, FALSE)
    /\ UNCHANGED <<N, arr, halted>>

\* ++it, for an iterator before end()
Increment ==
    /\ ~halted
    /\ it # NoIter
    /\ it # end(it.arr)
    /\ it' = iter_plus(it, 1)
    /\ last' = Op("increment", it.arr, "-", -1, -1, "ok", it', -1, FALSE)
    /\ UNCHANGED <<N, arr, halted>>

\* --it, for an iterator after begin()
Decrement ==
    /\ ~halted
    /\ it # NoIter
    /\ it # begin(it.arr)
    /\ it' = iter_plus(it, -1)
    /\ last' = Op("decrement", it.arr, "-", -1, -1, "ok", it', -1, FALSE)
    /\ UNCHANGED <<N, arr, halted>>

\* T v = *(x.rbegin() + k), for k < N
ReverseRead(x, k) ==
    /\ ~halted
    /\ rev_plus(rbegin(x), k) # rend(x)
    /\ LET r == rev_plus(rbegin(x), k)
       IN  last' = Op("rbegin_plus_deref", x, "-", k, -1, "ok",
                      rev_target(r), rev_deref(arr, r), FALSE)
    /\ UNCHANGED <<N, arr, it, halted>>

\* T v = p[i], where p is x.data(), x.c_array() or get_c_array(x), and i < N
PointerRead(via, x, i) ==
    /\ ~halted
    /\ N > 0
    /\ LET p == iter_plus(StoragePointers(x)[via], i)
       IN  last' = Op(via, x, "-", i, -1, "ok", p, load(arr, p), FALSE)
    /\ UNCHANGED <<N, arr, it, halted>>

\* p[i] = v, where p is x.data(), x.c_array() or get_c_array(x), and i < N
PointerWrite(via, x, i, v) ==
    /\ ~halted
    /\ N > 0
    /\ LET p == iter_plus(StoragePointers(x)[via], i)
       IN  /\ arr' = store(arr, p, v)
           /\ last' = Op(via \o "_write", x, "-", i, v, "ok", p, -1, FALSE)
    /\ UNCHANGED <<N, it, halted>>

\* T v = *it, for an iterator before end()
Deref ==
    /\ ~halted
    /\ it # NoIter
    /\ it.pos < end(it.arr).pos
    /\ last' = Op("deref", it.arr, "-", it.pos, -1, "ok", it, load(arr, it), FALSE)
    /\ UNCHANGED <<N, arr, it, halted>>

\* *it = v, for an iterator before end()
DerefWrite(v) ==
    /\ ~halted
    /\ it # NoIter
    /\ it.pos < end(it.arr).pos
    /\ arr' = store(arr, it, v)
    /\ last' = Op("deref_write", it.arr, "-", it.pos, v, "ok", it, -1, FALSE)
    /\ UNCHANGED <<N, it, halted>>

\* x == y, x != y, x < y, x > y, x <= y, x >= y
Compare(op, x, y, result) ==
    /\ ~halted
    /\ last' = Op(op, x, y, -1, -1, "ok", NullRef, -1, result)
    /\ UNCHANGED <<N, arr, it, halted>>

OpEq(x, y) == Compare("op_eq", x, y, op_eq(arr, x, y))
OpNe(x, y) == Compare("op_ne", x, y, op_ne(arr, x, y))
OpLt(x, y) == Compare("op_lt", x, y, op_lt(arr, x, y))
OpGt(x, y) == Compare("op_gt", x, y, op_gt(arr, x, y))
OpLe(x, y) == Compare("op_le", x, y, op_le(arr, x, y))
OpGe(x, y) == Compare("op_ge", x, y, op_ge(arr, x, y))

\* auto r = x <=> y.  A program holding this expression is rejected by the
\* compiler: it has no run, which the model shows as a step that ends it
OpThreeWay(x, y) ==
    /\ ~halted
    /\ halted' = TRUE
    /\ last' = Op("op_spaceship", x, y, -1, -1, op_spaceship(arr, x, y).status,
                  NullRef, -1, FALSE)
    /\ UNCHANGED <<N, arr, it>>

\* the statements of constexpr_test_function, each enabled after the one before
\* res.front() = res.back();
CxFront ==
    /\ last.op = "init"
    /\ back("res").status = "ok"
    /\ FrontWrite("res", load(arr, back("res").ref))

\* res[2] = res.at(res.size() - 2);
CxSubscript2 ==
    /\ last.op = "front_write"
    /\ at("res", size - 2).status = "ok"
    /\ op_subscript("res", 2).status = "ok"
    /\ RefWrite("subscript_write", "res", 2, load(arr, at("res", size - 2).ref),
                op_subscript("res", 2))

\* res[3] = *(res.data() + res[4]);
CxSubscript3 ==
    /\ last.op = "subscript_write" /\ last.i = 2
    /\ op_subscript("res", 4).status = "ok"
    /\ op_subscript("res", 3).status = "ok"
    /\ LET off == load(arr, op_subscript("res", 4).ref)
       IN  /\ off \in 0..(N - 1)
           /\ RefWrite("subscript_write", "res", 3,
                       load(arr, iter_plus(data("res"), off)), op_subscript("res", 3))

\* boost::get<4>(res) = boost::get<5>(res);
CxGet ==
    /\ last.op = "subscript_write" /\ last.i = 3
    /\ get("res", 5).status = "ok"
    /\ GetWrite("res", 4, load(arr, get("res", 5).ref))

\* the caller then writes one element of the result through an accessor the
\* function did not write through: res.back() = v, res.at(i) = v, p[i] = v
CxThen ==
    /\ last.op = "get_write"
    /\ \E v \in CxValues :
          \/ BackWrite("res", v)
          \/ \E i \in 0..N : AtWrite("res", i, v)
          \/ \E via \in DOMAIN StoragePointers("res"), i \in 0..(N - 1) :
                 PointerWrite(via, "res", i, v)

\* std::size_t h = hash_value(x)
HashValue(x) ==
    /\ ~halted
    /\ last' = Op("hash_value", x, "-", -1, -1, "ok", NullRef, hash_value(arr, x), FALSE)
    /\ UNCHANGED <<N, arr, it, halted>>

\* ------------------------------------------------------------ specifications
\* a program mutating and reading two arrays
Next ==
    \/ \E x \in Names, v \in Values : Fill(x, v)
    \/ \E x \in Names, v \in Values : Assign(x, v)
    \/ \E x \in Names, y \in Names : Swap(x, y)
    \/ \E x \in Names, y \in Names : SwapFree(x, y)
    \/ \E x \in Names, y \in Names : CopyAssign(x, y)
    \/ \E x \in Names, i \in IndexInputs : AtRead(x, i)
    \/ \E x \in Names, i \in WriteIndexInputs, v \in Values : AtWrite(x, i, v)
    \/ \E x \in Names, i \in IndexInputs : SubscriptRead(x, i)
    \/ \E x \in Names, i \in WriteIndexInputs, v \in Values : SubscriptWrite(x, i, v)
    \/ \E x \in Names : Size(x)
    \/ \E x \in Names : MaxSize(x)
    \/ \E x \in Names : Empty(x)
    \/ \E x \in Names : FrontRead(x)
    \/ \E x \in Names, v \in Values : FrontWrite(x, v)
    \/ \E x \in Names : BackRead(x)
    \/ \E x \in Names, v \in Values : BackWrite(x, v)
    \/ \E x \in Names, Idx \in StaticIndexInputs : GetRead(x, Idx)
    \/ \E x \in Names, Idx \in StaticIndexInputs, v \in Values : GetWrite(x, Idx, v)

Spec == Init /\ [][Next]_vars

\* a program holding an iterator into one of two arrays across swaps and writes
NextIter ==
    \/ \E x \in Names, i \in 0..N : TakeIter(x, i)
    \/ \E x \in Names : Begin(x)
    \/ Increment
    \/ Decrement
    \/ Deref
    \/ \E v \in Values : DerefWrite(v)
    \/ \E x \in Names, y \in Names : Swap(x, y)
    \/ \E x \in Names, y \in Names : SwapFree(x, y)

SpecIter == Init /\ [][NextIter]_vars

\* a program that walks the arrays backwards and reaches their storage through
\* raw pointers
NextStorage ==
    \/ \E x \in Names, k \in 0..(N - 1) : ReverseRead(x, k)
    \/ \E via \in DOMAIN StoragePointers("a"), x \in Names, i \in 0..(N - 1) :
           PointerRead(via, x, i)
    \/ \E via \in DOMAIN StoragePointers("a"), x \in Names, i \in 0..(N - 1),
          v \in Values :
           PointerWrite(via, x, i, v)

SpecStorage == Init /\ [][NextStorage]_vars

\* a program whose accesses may fail: checked access at any index, front() and
\* back() (which fail on a zero-length array), and fill and size in between
NextFail ==
    \/ \E x \in Names, i \in IndexInputs : AtRead(x, i)
    \/ \E x \in Names, i \in WriteIndexInputs, v \in Values : AtWrite(x, i, v)
    \/ \E x \in Names : FrontRead(x)
    \/ \E x \in Names, v \in Values : BackWrite(x, v)
    \/ \E x \in Names, v \in Values : Fill(x, v)
    \/ \E x \in Names : Size(x)

SpecFail == Init /\ [][NextFail]_vars

\* constexpr_test_function run on each input, and one more write to its result
NextCx ==
    \/ CxFront
    \/ CxSubscript2
    \/ CxSubscript3
    \/ CxGet
    \/ CxThen

SpecCx == InitCx /\ [][NextCx]_vars

\* a program comparing arrays a and b, with a third array c of the same type
NextCmp ==
    \/ OpEq("a", "b")
    \/ OpNe("a", "b")
    \/ OpLt("a", "b")
    \/ OpGt("a", "b")
    \/ OpLe("a", "b")
    \/ OpGe("a", "b")
    \/ OpThreeWay("a", "b")
    \/ \E x \in {"a", "b"} : HashValue(x)

SpecCmp == InitCmp /\ [][NextCmp]_vars

\* a program assigning an array<bool,N> s to an array<int,N> a, and writing both
NextConv ==
    \/ OpAssign("a", "s")
    \/ \E i \in WriteIndexInputs, v \in Values : AtWrite("a", i, v)
    \/ \E i \in WriteIndexInputs, v \in SrcValues : AtWrite("s", i, v)

SpecConv == InitConv /\ [][NextConv]_vars

\* a program copying between arrays a and b, then writing, filling or swapping
\* one of them with a third array c
NextCopy ==
    \/ \E x \in Names, y \in Names : CopyAssign(x, y)
    \/ \E x \in Names, v \in Values : Fill(x, v)
    \/ \E x \in Names, i \in 0..(N - 1), v \in Values : AtWrite(x, i, v)
    \/ \E x \in Names : Swap(x, "c")

SpecCopy == InitCmp /\ [][NextCopy]_vars

\* =================================================================== claims
AtOps == {"at_read", "at_write"}
ReadOps == {"at_read", "subscript_read"}
SwapOps == {"swap", "swap_free"}

\* C1: for every array of length N and every index i >= N (i = N, N + 1 and
\* N + 100 among them), at(i) throws std::out_of_range and returns no element;
\* for N = 0 this holds for every i, i = 0 included.
C1_AtOutOfRangeThrows ==
    /\ \A x \in DOMAIN arr : \A i \in IndexInputs :
           i >= N => at(x, i) = OutOfRange
    /\ (last.op \in AtOps /\ last.i >= N) =>
           /\ last.status = "out_of_range"
           /\ last.ref = NullRef
           /\ last.val = -1

C1_Witness ==
    /\ N > 0
    /\ last.op = "at_read"
    /\ last.i = N
    /\ last.status = "out_of_range"

\* C2: for N > 0 and every valid index i (0 <= i < N), a[i] and a.at(i) return
\* the same element, the one stored at position i, and at(i) does not throw.
C2_SubscriptAndAtAgree ==
    /\ \A x \in DOMAIN arr : \A i \in 0..(N - 1) :
           /\ at(x, i).status = "ok"
           /\ op_subscript(x, i).status = "ok"
           /\ op_subscript(x, i).ref = at(x, i).ref
           /\ load(arr, op_subscript(x, i).ref) = arr[x][i]
           /\ load(arr, at(x, i).ref) = arr[x][i]
    /\ (last.op \in ReadOps /\ last.i < N) =>
           /\ last.status = "ok"
           /\ last.val = arr[last.x][last.i]

C2_Witness ==
    /\ N >= 2
    /\ last.op = "subscript_read"
    /\ last.i = 1
    /\ last.status = "ok"
    /\ arr[last.x][0] # arr[last.x][1]
    /\ at(last.x, 1).status = "ok"
    /\ last.val = load(arr, at(last.x, 1).ref)

\* C3: in every reachable state, whatever operations ran before (fill, assign,
\* swap, copy assignment, element writes, failed at() calls), size() = N,
\* max_size() = N and empty() = (N = 0), and every array holds N elements.
C3_SizeIsN ==
    /\ size = N
    /\ max_size = N
    /\ empty = (N = 0)
    /\ \A x \in DOMAIN arr : DOMAIN arr[x] = 0..(N - 1)
    /\ last.op = "size" => last.val = N
    /\ last.op = "max_size" => last.val = N
    /\ last.op = "empty" => last.flag = (N = 0)

C3_Witness ==
    /\ N >= 2
    /\ last.op \in SwapOps
    /\ arr # last.pre
    /\ size = N
    /\ max_size = N
    /\ empty = FALSE

\* C4: after a.fill(v) every element a[i], i in [0,N), equals v; a.assign(v)
\* leaves the arrays exactly as a.fill(v) would; on a zero-length array both
\* change nothing.
C4_FillSetsEveryElement ==
    last.op \in {"fill", "assign"} =>
        /\ \A i \in 0..(N - 1) : arr[last.x][i] = last.v
        /\ arr = [last.pre EXCEPT ![last.x] = [i \in 0..(N - 1) |-> last.v]]
        /\ N = 0 => arr = last.pre

C4_Witness ==
    /\ N >= 2
    /\ last.op = "assign"
    /\ \A i \in 0..(N - 1) : last.pre[last.x][i] # last.v
    /\ \A i \in 0..(N - 1) : arr[last.x][i] = last.v

\* C5: swap exchanges element values in place: after a.swap(b) or swap(a, b),
\* for every i in [0,N) position i of a holds b's original element i and
\* position i of b holds a's original element i; an iterator to position i of
\* a taken before the swap still designates position i of a, and so reads b's
\* original value.
C5_SwapExchangesInPlace ==
    last.op \in SwapOps =>
        LET x == last.x
            y == last.y
        IN  /\ \A i \in 0..(N - 1) :
                   /\ arr[x][i] = last.pre[y][i]
                   /\ arr[y][i] = last.pre[x][i]
            /\ it = last.pre_it
            /\ (it # NoIter /\ it.pos < N /\ it.arr = x) =>
                   load(arr, it) = last.pre[y][it.pos]
            /\ (it # NoIter /\ it.pos < N /\ it.arr = y) =>
                   load(arr, it) = last.pre[x][it.pos]

C5_Witness ==
    /\ N >= 2
    /\ last.op = "swap"
    /\ last.x = "a"
    /\ last.y = "b"
    /\ it = Ref("a", 1)
    /\ last.pre_it = it
    /\ last.pre["a"][1] # last.pre["b"][1]
    /\ load(arr, it) = last.pre["b"][1]

\* C6: swapping twice is the identity: swap(a, b); swap(a, b) restores both a
\* and b to their original element values.
C6_SwapTwiceRestores ==
    last.run = 2 => arr = last.pre2

C6_Witness ==
    /\ N >= 2
    /\ last.run = 2
    /\ last.x # last.y
    /\ last.pre # arr
    /\ arr = last.pre2

\* the arrays named x and y hold equal elements at every index
ElementwiseEqual(x, y) == \A i \in 0..(N - 1) : arr[x][i] = arr[y][i]

\* C7: a == b holds iff a[i] == b[i] at every index i in [0,N) (two zero-length
\* arrays are always equal), and array equality is reflexive, symmetric and
\* transitive.
\* (a, b and c are any three arrays: InitCmp draws each from Storage(N))
C7_EqualityIsElementwise ==
    /\ op_eq(arr, "a", "b") = ElementwiseEqual("a", "b")
    /\ op_eq(arr, "a", "a")
    /\ op_eq(arr, "a", "b") => op_eq(arr, "b", "a")
    /\ (op_eq(arr, "a", "b") /\ op_eq(arr, "b", "c")) => op_eq(arr, "a", "c")
    /\ last.op = "op_eq" => last.flag = ElementwiseEqual(last.x, last.y)
    /\ N = 0 => op_eq(arr, "a", "b")

C7_Witness ==
    /\ N >= 2
    /\ last.op = "op_eq"
    /\ last.flag = FALSE
    /\ arr["a"][0] = arr["b"][0]
    /\ arr["a"][1] # arr["b"][1]

\* the first index at which x and y differ has the smaller element in x
LexLess(x, y) ==
    \E k \in 0..(N - 1) :
        /\ arr[x][k] < arr[y][k]
        /\ \A j \in 0..(k - 1) :
               ~(arr[x][j] < arr[y][j]) /\ ~(arr[y][j] < arr[x][j])

\* C8: operator< is lexicographic: a < b holds iff there is an index k in
\* [0,N) with a[k] < b[k] such that for every j < k neither a[j] < b[j] nor
\* b[j] < a[j]; when no index differs (N = 0 included) a < b is false.
C8_LessIsLexicographic ==
    /\ op_lt(arr, "a", "b") = LexLess("a", "b")
    /\ ElementwiseEqual("a", "b") => ~op_lt(arr, "a", "b")
    /\ last.op = "op_lt" => last.flag = LexLess(last.x, last.y)

C8_Witness ==
    /\ N >= 2
    /\ last.op = "op_lt"
    /\ last.flag = TRUE
    /\ arr["a"][0] = arr["b"][0]
    /\ arr["a"][1] < arr["b"][1]

\* neither x < y nor y < x
Incomparable(x, y) == ~op_lt(arr, x, y) /\ ~op_lt(arr, y, x)

\* C9: operator< on arrays is a strict weak order: irreflexive, asymmetric,
\* transitive, and incomparability is transitive.
C9_LessIsStrictWeakOrder ==
    /\ ~op_lt(arr, "a", "a")
    /\ op_lt(arr, "a", "b") => ~op_lt(arr, "b", "a")
    /\ (op_lt(arr, "a", "b") /\ op_lt(arr, "b", "c")) => op_lt(arr, "a", "c")
    /\ (Incomparable("a", "b") /\ Incomparable("b", "c")) => Incomparable("a", "c")

C9_Witness ==
    /\ N >= 2
    /\ last.op = "op_lt"
    /\ last.flag = TRUE
    /\ op_lt(arr, "b", "c")
    /\ op_lt(arr, "a", "c")
    /\ arr["a"][0] = arr["b"][0]

\* C10: the derived relations come from == and <: (a != b) = !(a == b),
\* (a > b) = (b < a), (a <= b) = !(b < a) and (a >= b) = !(a < b).
C10_DerivedRelations ==
    /\ op_ne(arr, "a", "b") = ~op_eq(arr, "a", "b")
    /\ op_gt(arr, "a", "b") = op_lt(arr, "b", "a")
    /\ op_le(arr, "a", "b") = ~op_lt(arr, "b", "a")
    /\ op_ge(arr, "a", "b") = ~op_lt(arr, "a", "b")
    /\ last.op = "op_ne" => last.flag = ~ElementwiseEqual(last.x, last.y)
    /\ last.op = "op_gt" => last.flag = LexLess(last.y, last.x)
    /\ last.op = "op_le" => last.flag = ~LexLess(last.y, last.x)
    /\ last.op = "op_ge" => last.flag = ~LexLess(last.x, last.y)

C10_Witness ==
    /\ N >= 2
    /\ last.op = "op_gt"
    /\ last.flag = TRUE
    /\ op_le(arr, "a", "b") = FALSE
    /\ op_ge(arr, "a", "b") = TRUE
    /\ op_ne(arr, "a", "b") = TRUE
    /\ arr["a"][0] = arr["b"][0]

\* C11: on a zero-length array every element-returning accessor -- operator[](i),
\* at(i), front(), back(), reading (const) or writing (non-const) -- throws
\* std::out_of_range for every argument, index 0 included, and returns no
\* element.
AccessOps == {"at_read", "at_write", "subscript_read", "subscript_write",
              "front_read", "front_write", "back_read", "back_write"}

C11_EmptyArrayAccessThrows ==
    N = 0 =>
        /\ \A x \in DOMAIN arr :
               /\ front(x) = OutOfRange
               /\ back(x) = OutOfRange
               /\ \A i \in IndexInputs :
                      /\ op_subscript(x, i) = OutOfRange
                      /\ at(x, i) = OutOfRange
        /\ last.op \in AccessOps =>
               /\ last.status = "out_of_range"
               /\ last.ref = NullRef
               /\ last.val = -1
               /\ arr = last.pre
               /\ ~halted

C11_Witness ==
    /\ N = 0
    /\ last.op = "subscript_write"
    /\ last.i = 0
    /\ last.status = "out_of_range"

\* the hashes of the elements of x at indices i, i+1, ..., N-1 combined into seed
RECURSIVE CombineFrom(_, _, _)
CombineFrom(x, seed, i) ==
    IF i >= N THEN seed ELSE CombineFrom(x, hash_combine(seed, arr[x][i]), i + 1)

\* C12: hash_value(a) combines the element hashes over begin()..end() in index
\* order and is consistent with equality: a == b implies
\* hash_value(a) == hash_value(b).
C12_HashConsistentWithEquality ==
    /\ op_eq(arr, "a", "b") => hash_value(arr, "a") = hash_value(arr, "b")
    /\ hash_value(arr, "a") = CombineFrom("a", 0, 0)
    /\ (last.op = "hash_value" /\ op_eq(arr, "a", "b")) =>
           /\ last.val = hash_value(arr, "a")
           /\ last.val = hash_value(arr, "b")

C12_Witness ==
    /\ N >= 2
    /\ last.op = "hash_value"
    /\ last.x = "a"
    /\ op_eq(arr, "a", "b")
    /\ arr["a"][0] # arr["a"][1]
    /\ last.val = hash_value(arr, "b")
    /\ ~op_eq(arr, "a", "c")
    /\ last.val # hash_value(arr, "c")

GetOps == {"get_read", "get_write"}

\* C13: for every compile-time index Idx < N, get<Idx>(a) returns a reference
\* to the same element as a[Idx]: reading it yields element Idx, and writing
\* through it changes element Idx of a.
C13_GetIsSubscript ==
    /\ \A x \in DOMAIN arr : \A Idx \in 0..(N - 1) :
           /\ get(x, Idx).status = "ok"
           /\ get(x, Idx).ref = Ref(x, Idx)
           /\ get(x, Idx) = op_subscript(x, Idx)
           /\ load(arr, get(x, Idx).ref) = arr[x][Idx]
    /\ (last.op = "get_read" /\ last.i < N) =>
           /\ last.status = "ok"
           /\ last.val = arr[last.x][last.i]
           /\ arr = last.pre
    /\ (last.op = "get_write" /\ last.i < N) =>
           /\ last.status = "ok"
           /\ arr = [last.pre EXCEPT ![last.x][last.i] = last.v]
           /\ load(arr, op_subscript(last.x, last.i).ref) = last.v

C13_Witness ==
    /\ N >= 2
    /\ last.op = "get_write"
    /\ last.i = 1
    /\ last.status = "ok"
    /\ last.pre[last.x][1] # last.v
    /\ arr[last.x][1] = last.v
    /\ arr[last.x][0] # last.v

\* C14: a program that instantiates get<Idx>(a) with Idx >= N is rejected at
\* build time; the static accessor has no runtime out-of-range error path.
C14_GetOutOfRangeDoesNotBuild ==
    /\ \A x \in DOMAIN arr : \A Idx \in IndexInputs :
           Idx >= N => get(x, Idx) = StaticAssertFailed
    /\ \A x \in DOMAIN arr : \A Idx \in StaticIndexInputs :
           get(x, Idx).status \in {"ok", "static_assert_failed"}
    /\ last.op \in GetOps =>
           /\ last.status \in {"ok", "static_assert_failed"}
           /\ (last.status = "static_assert_failed") = (last.i >= N)
           /\ last.i >= N => (halted /\ arr = last.pre /\ last.ref = NullRef)

C14_Witness ==
    /\ N >= 2
    /\ last.op = "get_read"
    /\ last.i = N
    /\ last.status = "static_assert_failed"
    /\ halted

\* C15: converting assignment a = b from an array<T2,N> assigns element by
\* element: afterwards a[i] equals b[i] converted to T for every i in [0,N),
\* b is unchanged, the operation returns a itself, and a shares no storage
\* with b (a later write to one leaves the other as it was).
C15_ConvertingAssignment ==
    /\ last.op = "op_assign" =>
           /\ \A i \in 0..(N - 1) :
                  arr[last.x][i] = Convert(last.pre[last.y][i])
           /\ arr[last.y] = last.pre[last.y]
           /\ last.ref = self(last.x)
           /\ last.status = "ok"
    /\ (last.op = "at_write" /\ last.x = "a") => arr["s"] = last.pre["s"]
    /\ (last.op = "at_write" /\ last.x = "s") => arr["a"] = last.pre["a"]

C15_Witness ==
    /\ N >= 2
    /\ last.op = "op_assign"
    /\ last.pre["s"][0] # last.pre["s"][1]
    /\ \A i \in 0..(N - 1) : last.pre["a"][i] # Convert(last.pre["s"][i])
    /\ \A i \in 0..(N - 1) : arr["a"][i] = Convert(arr["s"][i])

\* the operations that write elements of the one array last.x
OneArrayWriteOps == {"fill", "assign", "at_write", "subscript_write",
                     "front_write", "back_write", "get_write", "deref_write"}

\* the latest operation was a completed write, fill or swap
Mutated ==
    \/ last.op \in OneArrayWriteOps /\ last.status = "ok"
    \/ last.op \in SwapOps

\* C16: copying or assigning an array gives an independent value: right after
\* b = a, b == a element by element and a is unchanged; any later mutation of
\* b (element writes, fill, swap with a third array) leaves every element of a
\* unchanged, and the other way round.
C16_CopyIsIndependent ==
    /\ last.op = "copy_assign" =>
           /\ \A i \in 0..(N - 1) : arr[last.x][i] = last.pre[last.y][i]
           /\ op_eq(arr, last.x, last.y)
           /\ \A z \in (DOMAIN arr) \ {last.x} : arr[z] = last.pre[z]
    /\ (last.op \in OneArrayWriteOps /\ last.status = "ok") =>
           \A z \in (DOMAIN arr) \ {last.x} : arr[z] = last.pre[z]
    /\ last.op \in SwapOps =>
           \A z \in (DOMAIN arr) \ {last.x, last.y} : arr[z] = last.pre[z]
    /\ (Mutated /\ last.copy_x # "-" /\ last.x = last.copy_x /\ last.y # last.copy_y) =>
           arr[last.copy_y] = last.pre[last.copy_y]
    /\ (Mutated /\ last.copy_x # "-" /\ last.x = last.copy_y /\ last.y # last.copy_x) =>
           arr[last.copy_x] = last.pre[last.copy_x]

C16_Witness ==
    /\ N >= 2
    /\ last.copy_x = "b"
    /\ last.copy_y = "a"
    /\ last.op = "swap"
    /\ last.x = "b"
    /\ last.y = "c"
    /\ last.pre["b"] = last.pre["a"]
    /\ arr["a"] = last.pre["a"]
    /\ \A i \in 0..(N - 1) : arr["b"][i] # arr["a"][i]

\* C17: forward iteration from begin() to end() visits exactly the elements at
\* indices 0, 1, ..., N-1 in that order and then stops: end() - begin() =
\* size() = N, *(begin() + i) is element i for every i < N, and begin() always
\* yields an iterator at index 0, whatever was traversed before.
C17_ForwardIteration ==
    /\ \A x \in DOMAIN arr :
           /\ iter_diff(end(x), begin(x)) = size
           /\ size = N
           /\ range(begin(x), end(x)) = [k \in 1..N |-> Ref(x, k - 1)]
           /\ range(cbegin(x), cend(x)) = range(begin(x), end(x))
           /\ \A i \in 0..(N - 1) : load(arr, iter_plus(begin(x), i)) = arr[x][i]
    /\ last.op = "begin" => it = Ref(last.x, 0)
    /\ last.op = "begin_plus" => it = Ref(last.x, last.i)
    /\ last.op = "increment" =>
           /\ it = Ref(last.pre_it.arr, last.pre_it.pos + 1)
           /\ it.pos <= N
    /\ last.op = "deref" =>
           /\ it.pos \in 0..(N - 1)
           /\ last.val = arr[it.arr][it.pos]

C17_Witness ==
    /\ N >= 2
    /\ last.op = "begin"
    /\ last.pre_it = end(last.x)
    /\ it = Ref(last.x, 0)
    /\ Len(range(it, last.pre_it)) = N

\* C18: reverse iteration from rbegin() to rend() visits the elements at
\* indices N-1, N-2, ..., 0 in that order: the k-th element reached from
\* rbegin() is element N-1-k, and for N = 0 rbegin() equals rend().
C18_ReverseIteration ==
    /\ \A x \in DOMAIN arr :
           /\ rrange(rbegin(x), rend(x)) = [k \in 1..N |-> Ref(x, N - k)]
           /\ rrange(crbegin(x), crend(x)) = rrange(rbegin(x), rend(x))
           /\ \A k \in 0..(N - 1) :
                  rev_deref(arr, rev_plus(rbegin(x), k)) = arr[x][N - 1 - k]
           /\ N = 0 => rbegin(x) = rend(x)
           /\ N > 0 => rbegin(x) # rend(x)
    /\ last.op = "rbegin_plus_deref" =>
           /\ last.ref = Ref(last.x, N - 1 - last.i)
           /\ last.val = arr[last.x][N - 1 - last.i]

C18_Witness ==
    /\ N >= 2
    /\ last.op = "rbegin_plus_deref"
    /\ last.i = 0
    /\ arr[last.x][0] # arr[last.x][N - 1]
    /\ last.val = arr[last.x][N - 1]

PointerReadOps == {"data", "c_array", "get_c_array"}
PointerWriteOps == {"data_write", "c_array_write", "get_c_array_write"}

\* C19: for N > 0, data(), c_array(), get_c_array(a) and begin() designate the
\* same storage: each points at element 0, data() + i designates element i for
\* every i < N, and a write through any of them is observed by a[i], at(i) and
\* iteration.
C19_StoragePointersAgree ==
    /\ N > 0 =>
           \A x \in DOMAIN arr :
              /\ data(x) = begin(x)
              /\ c_array(x) = begin(x)
              /\ get_c_array(x) = begin(x)
              /\ data(x) = Ref(x, 0)
              /\ \A i \in 0..(N - 1) :
                     /\ iter_plus(data(x), i) = op_subscript(x, i).ref
                     /\ iter_plus(data(x), i) = at(x, i).ref
                     /\ load(arr, iter_plus(data(x), i)) = arr[x][i]
    /\ last.op \in PointerReadOps =>
           /\ last.ref = Ref(last.x, last.i)
           /\ last.val = arr[last.x][last.i]
           /\ arr = last.pre
    /\ last.op \in PointerWriteOps =>
           /\ arr = [last.pre EXCEPT ![last.x][last.i] = last.v]
           /\ load(arr, op_subscript(last.x, last.i).ref) = last.v
           /\ load(arr, at(last.x, last.i).ref) = last.v
           /\ load(arr, range(begin(last.x), end(last.x))[last.i + 1]) = last.v
           /\ load(arr, rrange(rbegin(last.x), rend(last.x))[N - last.i]) = last.v

C19_Witness ==
    /\ N >= 2
    /\ last.op = "c_array_write"
    /\ last.i = N - 1
    /\ last.pre[last.x][last.i] # last.v
    /\ load(arr, at(last.x, last.i).ref) = last.v

\* C20: for N > 0, front() returns a reference to element 0 (the same element
\* as a[0] and *begin()) and back() returns a reference to element N-1 (the
\* same element as a[N-1], the one before end()); a write through front() or
\* back() changes exactly that element.
C20_FrontAndBack ==
    /\ N > 0 =>
           \A x \in DOMAIN arr :
              /\ front(x) = Returned(Ref(x, 0))
              /\ front(x) = op_subscript(x, 0)
              /\ front(x).ref = begin(x)
              /\ back(x) = Returned(Ref(x, N - 1))
              /\ back(x) = op_subscript(x, N - 1)
              /\ back(x).ref = iter_plus(end(x), 0 - 1)
              /\ load(arr, front(x).ref) = arr[x][0]
              /\ load(arr, back(x).ref) = arr[x][N - 1]
    /\ N > 0 /\ last.op = "front_read" =>
           /\ last.status = "ok"
           /\ last.val = arr[last.x][0]
           /\ arr = last.pre
    /\ N > 0 /\ last.op = "back_read" =>
           /\ last.status = "ok"
           /\ last.val = arr[last.x][N - 1]
           /\ arr = last.pre
    /\ N > 0 /\ last.op = "front_write" =>
           /\ last.status = "ok"
           /\ arr = [last.pre EXCEPT ![last.x][0] = last.v]
    /\ N > 0 /\ last.op = "back_write" =>
           /\ last.status = "ok"
           /\ arr = [last.pre EXCEPT ![last.x][N - 1] = last.v]

C20_Witness ==
    /\ N >= 2
    /\ last.op = "back_write"
    /\ last.pre[last.x][N - 1] # last.v
    /\ arr[last.x][N - 1] = last.v
    /\ arr[last.x][0] = last.pre[last.x][0]
    /\ arr[last.x][0] # last.v

\* the indices at which x and y differ
Differing(x, y) == {i \in 0..(N - 1) : arr[x][i] # arr[y][i]}
FirstDiffering(x, y) ==
    CHOOSE k \in Differing(x, y) : \A j \in Differing(x, y) : k <= j

\* C21: a <=> b on two arrays of the same type and length yields 'equal' when
\* the arrays are element-wise equal (two value-initialized arrays included),
\* 'less' when at the first differing index a's element is smaller, and
\* 'greater' when at that index a's element is larger.
C21_ThreeWayComparison ==
    last.op = "op_spaceship" =>
        /\ last.status = "ok"
        /\ ElementwiseEqual(last.x, last.y) => last.val = eq
        /\ Differing(last.x, last.y) # {} =>
               LET k == FirstDiffering(last.x, last.y)
               IN  /\ arr[last.x][k] < arr[last.y][k] => last.val = lt
                   /\ arr[last.x][k] > arr[last.y][k] => last.val = gt

\* the element a completed single-element write addresses
SingleWriteOps == {"front_write", "back_write", "subscript_write", "at_write",
                   "get_write", "data_write", "c_array_write", "get_c_array_write"}
Addressed ==
    IF last.op = "front_write" THEN 0
    ELSE IF last.op = "back_write" THEN N - 1
    ELSE last.i

\* the statements of constexpr_test_function applied to a plain sequence s of
\* length 10 (a function on 0..9)
Plain1(s) == [s EXCEPT ![0] = s[9]]
Plain2(s) == [Plain1(s) EXCEPT ![2] = Plain1(s)[8]]
Plain3(s) == [Plain2(s) EXCEPT ![3] = Plain2(s)[Plain2(s)[4]]]
Plain4(s) == [Plain3(s) EXCEPT ![4] = Plain3(s)[5]]

\* C22: a write through a single-element accessor (front(), back(),
\* operator[](i), at(i), *(data()+i), get<Idx>) changes exactly the addressed
\* element and leaves every other element unchanged, so a sequence of such
\* writes gives what the same writes give on a plain sequence: from {0,...,9},
\* front()=back(); a[2]=a.at(8); a[3]=*(data()+a[4]); get<4>=get<5> yields
\* {9,1,8,4,5,5,6,7,8,9}.
C22_SingleElementWrites ==
    /\ (last.op \in SingleWriteOps /\ last.status = "ok") =>
           /\ arr[last.x][Addressed] = last.v
           /\ \A j \in 0..(N - 1) :
                  j # Addressed => arr[last.x][j] = last.pre[last.x][j]
           /\ \A y \in DOMAIN arr : y # last.x => arr[y] = last.pre[y]
    /\ last.op = "front_write" => arr["res"] = Plain1(arr["in"])
    /\ (last.op = "subscript_write" /\ last.i = 2) => arr["res"] = Plain2(arr["in"])
    /\ (last.op = "subscript_write" /\ last.i = 3) => arr["res"] = Plain3(arr["in"])
    /\ last.op = "get_write" =>
           /\ arr["res"] = Plain4(arr["in"])
           /\ arr["in"] = cx14 => arr["res"] = ethalon

C22_Witness ==
    /\ last.op = "get_write"
    /\ last.status = "ok"
    /\ arr["in"] = cx14
    /\ arr["res"] = ethalon

\* what the call recorded in r gives when it starts from the arrays m
AsIfFrom(m, r, after) ==
    /\ r.pre = m
    /\ r.op = "at_read" =>
           IF r.i < N
           THEN r.status = "ok" /\ r.val = m[r.x][r.i] /\ after = m
           ELSE r.status = "out_of_range" /\ after = m
    /\ r.op = "at_write" =>
           IF r.i < N
           THEN r.status = "ok" /\ after = [m EXCEPT ![r.x][r.i] = r.v]
           ELSE r.status = "out_of_range" /\ after = m
    /\ r.op = "front_read" =>
           IF N > 0
           THEN r.status = "ok" /\ r.val = m[r.x][0] /\ after = m
           ELSE r.status = "out_of_range" /\ after = m
    /\ r.op = "back_write" =>
           IF N > 0
           THEN r.status = "ok" /\ after = [m EXCEPT ![r.x][N - 1] = r.v]
           ELSE r.status = "out_of_range" /\ after = m
    /\ r.op = "fill" => after = [m EXCEPT ![r.x] = [j \in 0..(N - 1) |-> r.v]]
    /\ r.op = "size" => r.val = N /\ after = m

\* C23: a failed access is recoverable and has no effect: when at(i), or an
\* accessor of the zero-length array, fails with out-of-range, every element
\* and the size are unchanged and the program goes on, and the operation after
\* it -- another failing at(), or a valid access -- behaves as if the failed
\* call had not happened.
C23_FailedAccessHasNoEffect ==
    [][ /\ last'.status = "out_of_range" =>
              /\ arr' = arr
              /\ N' = N
              /\ it' = it
              /\ ~halted'
        /\ last.status = "out_of_range" => AsIfFrom(last.pre, last', arr')
      ]_vars

C23_Witness ==
    /\ N >= 1
    /\ last.op = "at_write"
    /\ last.i = N
    /\ last.status = "out_of_range"
    /\ arr = last.pre
    /\ ~halted

\* how many of the given truth values are TRUE
HowMany(flags) == Cardinality({k \in DOMAIN flags : flags[k]})

\* C24: for a totally ordered element type the comparison operators agree: for
\* all arrays a, b of the same type and length exactly one of a < b, a == b,
\* a > b holds, (a <= b) = (a < b or a == b), and (a >= b) = (a > b or a == b).
C24_ComparisonsAgree ==
    /\ \A p \in {<<"a", "b">>, <<"b", "a">>, <<"a", "a">>, <<"b", "c">>} :
           LET x == p[1]
               y == p[2]
           IN  /\ HowMany(<<op_lt(arr, x, y), op_eq(arr, x, y), op_gt(arr, x, y)>>) = 1
               /\ op_le(arr, x, y) = (op_lt(arr, x, y) \/ op_eq(arr, x, y))
               /\ op_ge(arr, x, y) = (op_gt(arr, x, y) \/ op_eq(arr, x, y))
               /\ op_ne(arr, x, y) = (op_lt(arr, x, y) \/ op_gt(arr, x, y))
    /\ last.op = "op_le" =>
           last.flag = (LexLess(last.x, last.y) \/ ElementwiseEqual(last.x, last.y))
    /\ last.op = "op_ge" =>
           last.flag = (LexLess(last.y, last.x) \/ ElementwiseEqual(last.x, last.y))

C24_Witness ==
    /\ N >= 2
    /\ last.op = "op_le"
    /\ last.flag = TRUE
    /\ op_eq(arr, "a", "b")
    /\ ~op_lt(arr, "a", "b")
    /\ op_ge(arr, "a", "b")
    /\ op_lt(arr, "b", "c")

====
